---- MODULE Spec2Model ----
(***************************************************************************)
(* Real-time presence and relay engine of the server                       *)
(* (configurations/socket.js): the in-memory registry `users`, the         *)
(* socket.io connections, the handlers of the inbound events and the two   *)
(* durable collections the handlers write (HangoutUser, Message), and the   *)
(* REST-side paths that create a chat message and push it through the      *)
(* registry (messageController.js, messageService.js, chatService.js) over *)
(* the Chat collection.                                                    *)
(*                                                                         *)
(* Node runs each handler segment between two awaits atomically; a durable *)
(* operation touches only the store and its own handler's locals, so it    *)
(* commutes with the segments of other handlers.  Each await is therefore  *)
(* one action: the store executes the operation and the handler continues  *)
(* up to its next await.                                                   *)
(***************************************************************************)
EXTENDS Integers, Sequences, FiniteSets, TLC

VARIABLES
    io,            \* socket.js:16   FALSE while `io` is null
    sockets,       \* socket.io connections: "none" | "connected" | "disconnected"
    users,         \* socket.js:14   the registry, userId -> entry
    userKeys,      \* insertion order of the keys of `users` (Object.entries order)
    hangoutUsers,  \* HangoutUser collection, in natural order
    messages,      \* Message collection
    chats,         \* Chat collection; the _id of a chat is its index
    pending,       \* handlers suspended at an await
    emitted,       \* the emit calls of the latest step, in call order
    last,          \* the event (or continuation) the latest step handled
    error          \* TRUE iff the latest step threw out of its handler

vars == <<io, sockets, users, userKeys, hangoutUsers, messages, chats, pending, emitted,
          last, error>>

(* ------------------------------ bounds -------------------------------- *)
MaxSockets  == 3     \* connections over the life of the process
MaxUsers    == 2     \* user ids
MaxPending  == 1     \* handlers suspended at an await at one time
ConcSockets == 2     \* connections of the specifications with concurrent handlers
ConcPending == 2     \* handlers suspended at one time in those specifications
ReadSockets == 2     \* connections of the specification with a message store
MaxDocs     == 2     \* HangoutUser documents
MaxMessages == 2     \* Message documents
MaxChats    == 2     \* chat ids

Sockets == 1..MaxSockets
UserIds == 1..MaxUsers
ChatIds == 1..MaxChats

(* ---------------------------- JS values -------------------------------- *)
Undefined == "undefined"
Null      == "null"
\* a numeric field of an inbound payload: present as a number, or missing
JSNumber(n) == [type |-> "number", val |-> n]
JSMissing   == [type |-> "undefined", val |-> 0]

\* socket.js:38-41: the defaults of a fresh entry
DefaultFirstName == "Anon"
DefaultLastName  == ""
DefaultX == 100
DefaultY == 100

\* the x a userMoved payload carries in the model
MovedX == 5

\* users[undefined] reads and writes the property named "undefined": the key a
\* payload without userId (or without `to`) addresses
UndefinedKey == -1

\* x || d  for strings: undefined and "" are falsy
OrDefault(v, d) == IF v = Undefined \/ v = "" THEN d ELSE v
\* typeof v === 'number' ? v : d
NumberOr(v, d) == IF v.type = "number" THEN v.val ELSE d

(* ------------------------------ helpers -------------------------------- *)
Live == {s \in Sockets : sockets[s] = "connected"}

RECURSIVE SeqOf(_)
SeqOf(S) ==
    IF S = {} THEN <<>>
    ELSE LET m == CHOOSE x \in S : \A y \in S : x <= y
         IN  <<m>> \o SeqOf(S \ {m})

RemoveAt(seq, i) == [j \in 1..(Len(seq) - 1) |-> IF j < i THEN seq[j] ELSE seq[j + 1]]

\* one emit call: mode "to" is io.to(sid).emit, "socket" is socket.emit and
\* "broadcast" is socket.broadcast.emit, where `to` is the socket left out
Emit(mode, to, ev, p) == [mode |-> mode, to |-> to, event |-> ev, payload |-> p]

\* socketIds.forEach((sid) => io.to(sid).emit(ev, p))
ToEach(socketIds, ev, p) ==
    LET q == SeqOf(socketIds)
    IN  [i \in 1..Len(q) |-> Emit("to", q[i], ev, p)]

\* a broadcast that goes to every connected socket, the sender included
BroadcastEmit_ToAll(s, ev, p) == <<Emit("broadcast", 0, ev, p)>>

\* socket.emit(ev, p)
SocketEmit(s, ev, p) == <<Emit("socket", s, ev, p)>>

\* socket.broadcast.emit(ev, p)
BroadcastEmit(s, ev, p) == <<Emit("broadcast", s, ev, p)>>

\* the connections an emit call reaches: a broadcast reaches every connected
\* socket but the sender; the room of a socket id holds that socket while it is
\* connected and nothing afterwards
Receivers(e) == IF e.mode = "broadcast" THEN Live \ {e.to} ELSE {e.to} \cap Live

\* the emit calls of the latest step that reach connection c
Received(c) == SelectSeq(emitted, LAMBDA e : c \in Receivers(e))

Online(u) == u \in DOMAIN users

(* ----------------------------- registry -------------------------------- *)
\* socket.js:36-43
NewEntry(firstName, lastName, x, y) ==
    [socketIds |-> {},
     firstName |-> OrDefault(firstName, DefaultFirstName),
     lastName  |-> OrDefault(lastName, DefaultLastName),
     x         |-> NumberOr(x, DefaultX),
     y         |-> NumberOr(y, DefaultY),
     tableId   |-> Null]

\* a registration that starts the set over when the socket registers again
RegisterEntry_ResetOnRepeat(s, userId, firstName, lastName, x, y) ==
    IF Online(userId)
    THEN [users[userId] EXCEPT !.socketIds = IF s \in @ THEN {s} ELSE @ \cup {s}]
    ELSE [NewEntry(firstName, lastName, x, y) EXCEPT !.socketIds = {s}]

\* a registration that takes the display fields and position of every payload
RegisterEntry_Overwrite(s, userId, firstName, lastName, x, y) ==
    [NewEntry(firstName, lastName, x, y) EXCEPT
        !.socketIds = (IF Online(userId) THEN users[userId].socketIds ELSE {}) \cup {s}]

\* a registration that stores a set holding the new socket id alone
RegisterEntry_FreshSet(s, userId, firstName, lastName, x, y) ==
    LET entry == IF Online(userId) THEN users[userId]
                 ELSE NewEntry(firstName, lastName, x, y)
    IN  [entry EXCEPT !.socketIds = {s}]

\* socket.js:36-45: users[userId] ?? {...}; entry.socketIds.add(socket.id)
RegisterEntry(s, userId, firstName, lastName, x, y) ==
    LET entry == IF Online(userId) THEN users[userId]
                 ELSE NewEntry(firstName, lastName, x, y)
    IN  [entry EXCEPT !.socketIds = @ \cup {s}]

\* a roster that reports the default position instead of the entry's
Roster_DefaultPosition ==
    [i \in 1..Len(userKeys) |->
        [_id       |-> userKeys[i],
         firstName |-> users[userKeys[i]].firstName,
         lastName  |-> users[userKeys[i]].lastName,
         x         |-> DefaultX,
         y         |-> DefaultY,
         tableId   |-> users[userKeys[i]].tableId]]

\* socket.js:63-70: Object.entries(users).map(...)
Roster ==
    [i \in 1..Len(userKeys) |->
        [_id       |-> userKeys[i],
         firstName |-> users[userKeys[i]].firstName,
         lastName  |-> users[userKeys[i]].lastName,
         x         |-> users[userKeys[i]].x,
         y         |-> users[userKeys[i]].y,
         tableId   |-> users[userKeys[i]].tableId]]

\* socket.js:156-157: the first entry, in key order, that holds the socket id
\* (0 when none does)
ScanFor(s) ==
    LET hits == {i \in 1..Len(userKeys) : s \in users[userKeys[i]].socketIds}
    IN  IF hits = {} THEN 0 ELSE CHOOSE i \in hits : \A j \in hits : i <= j

(* -------------------------- durable store ------------------------------ *)
\* HangoutUser.findOne({ userId }): index of the first match, 0 for null
FindOne(userId) ==
    LET hits == {i \in 1..Len(hangoutUsers) : hangoutUsers[i].userId = userId}
    IN  IF hits = {} THEN 0 ELSE CHOOSE i \in hits : \A j \in hits : i <= j

\* part_001:10-12: schema defaults of a new document
NewDoc(userId) == [userId |-> userId, x |-> DefaultX, y |-> DefaultY, tableId |-> Null]

\* the x, y the suspended registerUser handler reads through `entry`: the object
\* in the registry while it is still there, the detached object afterwards
EntryX(t) == IF t.attached THEN users[t.userId].x ELSE t.x
EntryY(t) == IF t.attached THEN users[t.userId].y ELSE t.y

\* rec.x = ...; rec.y = ...; rec.tableId = null on a loaded document marks a
\* path modified only when the value differs from the loaded one: <<v>> is a
\* path to write, <<>> a path save() leaves alone
Dirty(old, new) == IF old = new THEN <<>> ELSE <<new>>

\* rec.save(): insert of a new document, $set of the modified paths otherwise
SaveDoc(t) ==
    IF t.rec = 0
    THEN Append(hangoutUsers, [userId |-> t.userId, x |-> t.set.x[1], y |-> t.set.y[1],
                               tableId |-> t.set.tableId[1]])
    ELSE [hangoutUsers EXCEPT ![t.rec] =
            [userId  |-> @.userId,
             x       |-> IF t.set.x = <<>> THEN @.x ELSE t.set.x[1],
             y       |-> IF t.set.y = <<>> THEN @.y ELSE t.set.y[1],
             tableId |-> IF t.set.tableId = <<>> THEN @.tableId ELSE t.set.tableId[1]]]

\* HangoutUser.findOneAndUpdate({ userId }, { x, y }, { upsert: true })
UpsertXY(userId, x, y) ==
    LET r == FindOne(userId)
    IN  IF r = 0 THEN Append(hangoutUsers, [NewDoc(userId) EXCEPT !.x = x, !.y = y])
        ELSE [hangoutUsers EXCEPT ![r].x = x, ![r].y = y]

\* HangoutUser.findOneAndUpdate({ userId }, { tableId }, { upsert: true })
UpsertTable(userId, tableId) ==
    LET r == FindOne(userId)
    IN  IF r = 0 THEN Append(hangoutUsers, [NewDoc(userId) EXCEPT !.tableId = tableId])
        ELSE [hangoutUsers EXCEPT ![r].tableId = tableId]

\* an update whose filter forgets chatId
MarkRead_AllChats(chatId, userId) ==
    [i \in 1..Len(messages) |->
        IF userId \notin messages[i].isReadBy /\ messages[i].senderId # userId
        THEN [messages[i] EXCEPT !.isReadBy = @ \cup {userId}]
        ELSE messages[i]]

\* socket.js:117-120: Message.updateMany({chatId, isReadBy: {$ne: userId},
\* senderId: {$ne: userId}}, {$push: {isReadBy: userId}})
MarkRead(chatId, userId) ==
    [i \in 1..Len(messages) |->
        IF /\ messages[i].chatId = chatId
           /\ userId \notin messages[i].isReadBy
           /\ messages[i].senderId # userId
        THEN [messages[i] EXCEPT !.isReadBy = @ \cup {userId}]
        ELSE messages[i]]

(* ------------------------------ state ---------------------------------- *)
\* socket.js:14-16: module load; the collections start empty
Init ==
    /\ io = FALSE
    /\ sockets = [s \in Sockets |-> "none"]
    /\ users = <<>>
    /\ userKeys = <<>>
    /\ hangoutUsers = <<>>
    /\ messages = <<>>
    /\ chats = <<>>
    /\ pending = <<>>
    /\ emitted = <<>>
    /\ last = [op |-> "load"]
    /\ error = FALSE

\* socket.js:19-27: initSocket
InitSocket ==
    /\ ~io
    /\ io' = TRUE
    /\ emitted' = <<>>
    /\ last' = [op |-> "initSocket"]
    /\ error' = FALSE
    /\ UNCHANGED <<sockets, users, userKeys, hangoutUsers, messages, chats, pending>>

\* socket.js:29-30: io.on('connection')
Connect(s) ==
    /\ io
    /\ sockets[s] = "none"
    /\ sockets' = [sockets EXCEPT ![s] = "connected"]
    /\ emitted' = <<>>
    /\ last' = [op |-> "connection", socket |-> s]
    /\ error' = FALSE
    /\ UNCHANGED <<io, users, userKeys, hangoutUsers, messages, chats, pending>>

(* --------------------------- registerUser ------------------------------ *)
\* socket.js:33-50: the handler up to `await HangoutUser.findOne`
RegisterUser(s, userId, firstName, lastName, x, y) ==
    /\ sockets[s] = "connected"
    /\ users' = (userId :> RegisterEntry(s, userId, firstName, lastName, x, y)) @@ users
    /\ userKeys' = IF Online(userId) THEN userKeys ELSE Append(userKeys, userId)
    /\ pending' = Append(pending,
          [op |-> "registerUser", pc |-> "findOne", socket |-> s, userId |-> userId,
           firstName |-> firstName, lastName |-> lastName,
           attached |-> TRUE, x |-> Null, y |-> Null,
           rec |-> 0, set |-> Null, prev |-> DOMAIN users])
    /\ emitted' = <<>>
    /\ last' = [op |-> "registerUser", socket |-> s, userId |-> userId,
                again |-> Online(userId) /\ s \in users[userId].socketIds,
                payload |-> [firstName |-> firstName, lastName |-> lastName,
                             x |-> x, y |-> y]]
    /\ error' = FALSE
    /\ UNCHANGED <<io, sockets, hangoutUsers, messages, chats>>

\* socket.js:74-80: the userJoined payload
UserJoined(t) ==
    [userId |-> t.userId, firstName |-> t.firstName, lastName |-> t.lastName,
     x |-> EntryX(t), y |-> EntryY(t)]

\* a registration that pushes userJoined to every connected socket
RegisterEmits_JoinedToAll(t) ==
    SocketEmit(t.socket, "existingUsers", Roster)
      \o ToEach(Live, "userJoined", UserJoined(t))

\* socket.js:60-80: socket.emit('existingUsers', ...) then
\* socket.broadcast.emit('userJoined', ...)
RegisterEmits(t) ==
    SocketEmit(t.socket, "existingUsers", Roster)
      \o BroadcastEmit(t.socket, "userJoined", UserJoined(t))

\* socket.js:50-55: findOne returns; rec is loaded or created, its paths are set,
\* and the handler suspends at `await rec.save()`.  When findOne rejects the
\* catch of 56-58 runs and the handler goes on to 60-80.
RegisterFindOne(i, ok) ==
    /\ i \in 1..Len(pending)
    /\ pending[i].op = "registerUser"
    /\ pending[i].pc = "findOne"
    /\ LET t == pending[i]
           r == FindOne(t.userId)
           old == IF r = 0 THEN NewDoc(t.userId) ELSE hangoutUsers[r]
       IN  IF ok
           THEN /\ pending' = [pending EXCEPT ![i] =
                      [t EXCEPT !.pc = "save", !.rec = r,
                          !.set = IF r = 0
                                  THEN [x |-> <<EntryX(t)>>, y |-> <<EntryY(t)>>,
                                        tableId |-> <<Null>>]
                                  ELSE [x |-> Dirty(old.x, EntryX(t)),
                                        y |-> Dirty(old.y, EntryY(t)),
                                        tableId |-> Dirty(old.tableId, Null)]]]
                /\ emitted' = <<>>
                /\ last' = [op |-> "registerUser.findOne", socket |-> t.socket,
                            userId |-> t.userId]
           ELSE /\ pending' = RemoveAt(pending, i)
                /\ emitted' = RegisterEmits(t)
                /\ last' = [op |-> "registerUser.done", socket |-> t.socket,
                            userId |-> t.userId, prev |-> t.prev, saved |-> FALSE]
    /\ error' = FALSE
    /\ UNCHANGED <<io, sockets, users, userKeys, hangoutUsers, messages, chats>>

\* a handler that ends without its emits when save rejects
RegisterSave_AbortOnFailure(i, ok) ==
    /\ i \in 1..Len(pending)
    /\ pending[i].op = "registerUser"
    /\ pending[i].pc = "save"
    /\ LET t == pending[i]
       IN  /\ IF ok
              THEN /\ t.userId # UndefinedKey
                   /\ t.rec = 0 => Len(hangoutUsers) < MaxDocs
                   /\ hangoutUsers' = SaveDoc(t)
              ELSE UNCHANGED hangoutUsers
           /\ pending' = RemoveAt(pending, i)
           /\ emitted' = IF ok THEN RegisterEmits(t) ELSE <<>>
           /\ last' = [op |-> "registerUser.done", socket |-> t.socket,
                       userId |-> t.userId, prev |-> t.prev, saved |-> ok]
    /\ error' = FALSE
    /\ UNCHANGED <<io, sockets, users, userKeys, messages, chats>>

\* socket.js:55-80: save returns (or rejects into the catch) and the handler
\* runs to its end.  userId is required (part_001:5-9): the save of a document
\* without it always rejects.
RegisterSave(i, ok) ==
    /\ i \in 1..Len(pending)
    /\ pending[i].op = "registerUser"
    /\ pending[i].pc = "save"
    /\ LET t == pending[i]
       IN  /\ IF ok
              THEN /\ t.userId # UndefinedKey
                   /\ t.rec = 0 => Len(hangoutUsers) < MaxDocs
                   /\ hangoutUsers' = SaveDoc(t)
              ELSE UNCHANGED hangoutUsers
           /\ pending' = RemoveAt(pending, i)
           /\ emitted' = RegisterEmits(t)
           /\ last' = [op |-> "registerUser.done", socket |-> t.socket,
                       userId |-> t.userId, prev |-> t.prev, saved |-> ok]
    /\ error' = FALSE
    /\ UNCHANGED <<io, sockets, users, userKeys, messages, chats>>

(* ----------------------- userMoved / joinTable ------------------------- *)
\* a userMoved that registers the user it names when there is no entry
UserMoved_CreateEntry(s, userId, x, y) ==
    /\ sockets[s] = "connected"
    /\ users' = IF Online(userId) THEN [users EXCEPT ![userId].x = x, ![userId].y = y]
                ELSE (userId :> [NewEntry(Undefined, Undefined, JSNumber(x), JSNumber(y))
                                    EXCEPT !.socketIds = {s}]) @@ users
    /\ userKeys' = IF Online(userId) THEN userKeys ELSE Append(userKeys, userId)
    /\ emitted' = BroadcastEmit(s, "userMoved", [userId |-> userId, x |-> x, y |-> y])
    /\ pending' = Append(pending, [op |-> "userMoved", userId |-> userId, x |-> x, y |-> y])
    /\ last' = [op |-> "userMoved", socket |-> s, userId |-> userId]
    /\ error' = FALSE
    /\ UNCHANGED <<io, sockets, hangoutUsers, messages, chats>>

\* socket.js:84-92: the handler up to `await HangoutUser.findOneAndUpdate`
UserMoved(s, userId, x, y) ==
    /\ sockets[s] = "connected"
    /\ users' = IF Online(userId) THEN [users EXCEPT ![userId].x = x, ![userId].y = y]
                ELSE users
    /\ emitted' = BroadcastEmit(s, "userMoved", [userId |-> userId, x |-> x, y |-> y])
    /\ pending' = Append(pending, [op |-> "userMoved", userId |-> userId, x |-> x, y |-> y])
    /\ last' = [op |-> "userMoved", socket |-> s, userId |-> userId]
    /\ error' = FALSE
    /\ UNCHANGED <<io, sockets, userKeys, hangoutUsers, messages, chats>>

\* socket.js:92-95: the update executes, or rejects into the catch
UserMovedUpdate(i, ok) ==
    /\ i \in 1..Len(pending)
    /\ pending[i].op = "userMoved"
    /\ LET t == pending[i]
       IN  /\ IF ok
              THEN /\ FindOne(t.userId) = 0 => Len(hangoutUsers) < MaxDocs
                   /\ hangoutUsers' = UpsertXY(t.userId, t.x, t.y)
              ELSE UNCHANGED hangoutUsers
           /\ last' = [op |-> "userMoved.done", userId |-> t.userId, saved |-> ok]
    /\ pending' = RemoveAt(pending, i)
    /\ emitted' = <<>>
    /\ error' = FALSE
    /\ UNCHANGED <<io, sockets, users, userKeys, messages, chats>>

\* socket.js:99-103: the handler up to `await HangoutUser.findOneAndUpdate`
JoinTable(s, userId, tableId) ==
    /\ sockets[s] = "connected"
    /\ users' = IF Online(userId) THEN [users EXCEPT ![userId].tableId = tableId]
                ELSE users
    /\ emitted' = BroadcastEmit(s, "tableJoined",
                                [userId |-> userId, tableId |-> tableId])
    /\ pending' = Append(pending, [op |-> "joinTable", userId |-> userId,
                                   tableId |-> tableId])
    /\ last' = [op |-> "joinTable", socket |-> s, userId |-> userId]
    /\ error' = FALSE
    /\ UNCHANGED <<io, sockets, userKeys, hangoutUsers, messages, chats>>

\* socket.js:103-106: the update executes, or rejects into the catch
JoinTableUpdate(i, ok) ==
    /\ i \in 1..Len(pending)
    /\ pending[i].op = "joinTable"
    /\ LET t == pending[i]
       IN  /\ IF ok
              THEN /\ FindOne(t.userId) = 0 => Len(hangoutUsers) < MaxDocs
                   /\ hangoutUsers' = UpsertTable(t.userId, t.tableId)
              ELSE UNCHANGED hangoutUsers
           /\ last' = [op |-> "joinTable.done", userId |-> t.userId, saved |-> ok]
    /\ pending' = RemoveAt(pending, i)
    /\ emitted' = <<>>
    /\ error' = FALSE
    /\ UNCHANGED <<io, sockets, users, userKeys, messages, chats>>

\* a tableCreated that also seats the sender's user at the new table
TableCreated_SeatsSender(s, newTable) ==
    /\ sockets[s] = "connected"
    /\ users' = [u \in DOMAIN users |->
                   IF s \in users[u].socketIds
                   THEN [users[u] EXCEPT !.tableId = newTable.id] ELSE users[u]]
    /\ emitted' = BroadcastEmit(s, "tableCreated", newTable)
    /\ last' = [op |-> "tableCreated", socket |-> s]
    /\ error' = FALSE
    /\ UNCHANGED <<io, sockets, userKeys, hangoutUsers, messages, chats, pending>>

\* socket.js:110-112
TableCreated(s, newTable) ==
    /\ sockets[s] = "connected"
    /\ emitted' = BroadcastEmit(s, "tableCreated", newTable)
    /\ last' = [op |-> "tableCreated", socket |-> s]
    /\ error' = FALSE
    /\ UNCHANGED <<io, sockets, users, userKeys, hangoutUsers, messages, chats, pending>>

(* ------------------------- markMessagesAsRead -------------------------- *)
\* socket.js:115-120: the handler up to `await Message.updateMany`
MarkMessagesAsRead(s, chatId, userId) ==
    /\ sockets[s] = "connected"
    /\ pending' = Append(pending, [op |-> "markMessagesAsRead", socket |-> s,
                                   chatId |-> chatId, userId |-> userId])
    /\ emitted' = <<>>
    /\ last' = [op |-> "markMessagesAsRead", socket |-> s, chatId |-> chatId,
                userId |-> userId]
    /\ error' = FALSE
    /\ UNCHANGED <<io, sockets, users, userKeys, hangoutUsers, messages, chats>>

\* a receipt pushed to every connected socket
MessagesReadEmits_ToAll(chatId, userId) ==
    ToEach(Live, "messagesRead", [chatId |-> chatId, userId |-> userId])

\* socket.js:121-123: users[userId]?.socketIds?.forEach(sid => io.to(sid).emit(...))
MessagesReadEmits(chatId, userId) ==
    IF Online(userId)
    THEN ToEach(users[userId].socketIds, "messagesRead",
                [chatId |-> chatId, userId |-> userId])
    ELSE <<>>

\* a continuation that pushes messagesRead whether or not the update succeeded
MarkMessagesAsReadUpdate_EmitAlways(i, ok) ==
    /\ i \in 1..Len(pending)
    /\ pending[i].op = "markMessagesAsRead"
    /\ LET t == pending[i]
       IN  /\ messages' = IF ok THEN MarkRead(t.chatId, t.userId) ELSE messages
           /\ emitted' = MessagesReadEmits(t.chatId, t.userId)
           /\ last' = [op |-> "markMessagesAsRead.done", socket |-> t.socket,
                       chatId |-> t.chatId, userId |-> t.userId, saved |-> ok,
                       before |-> messages]
    /\ pending' = RemoveAt(pending, i)
    /\ error' = FALSE
    /\ UNCHANGED <<io, sockets, users, userKeys, hangoutUsers, chats>>

\* socket.js:117-126: the update executes and messagesRead is pushed, or the
\* update rejects into the catch
MarkMessagesAsReadUpdate(i, ok) ==
    /\ i \in 1..Len(pending)
    /\ pending[i].op = "markMessagesAsRead"
    /\ LET t == pending[i]
       IN  /\ messages' = IF ok THEN MarkRead(t.chatId, t.userId) ELSE messages
           /\ emitted' = IF ok THEN MessagesReadEmits(t.chatId, t.userId) ELSE <<>>
           /\ last' = [op |-> "markMessagesAsRead.done", socket |-> t.socket,
                       chatId |-> t.chatId, userId |-> t.userId, saved |-> ok,
                       before |-> messages]
    /\ pending' = RemoveAt(pending, i)
    /\ error' = FALSE
    /\ UNCHANGED <<io, sockets, users, userKeys, hangoutUsers, chats>>

(* ------------------------ targeted relays ------------------------------ *)
VideoEvents == {"video-offer", "video-answer", "video-ice-candidate", "video-end"}

\* a relay that pushes to one socket id of the entry only
RelayEmits_FirstOnly(event, data) ==
    IF Online(data.to)
    THEN ToEach({CHOOSE s \in users[data.to].socketIds :
                    \A r \in users[data.to].socketIds : s <= r}, event, data)
    ELSE <<>>

\* socket.js:133-140: relay(event, data)
RelayEmits(event, data) ==
    IF Online(data.to)
    THEN ToEach(users[data.to].socketIds, event, data)
    ELSE <<>>

\* a relay without the `if (!entry) return` of 135-138: reading socketIds of
\* undefined throws
Relay_NoGuard(s, event, d) ==
    /\ sockets[s] = "connected"
    /\ emitted' = RelayEmits(event, d)
    /\ error' = ~Online(d.to)
    /\ last' = [op |-> event, to |-> d.to, data |-> d]
    /\ UNCHANGED <<io, sockets, users, userKeys, hangoutUsers, messages, chats, pending>>

\* socket.js:143-149: the four video-* handlers
Relay(s, event, d) ==
    /\ sockets[s] = "connected"
    /\ emitted' = RelayEmits(event, d)
    /\ error' = FALSE
    /\ last' = [op |-> event, to |-> d.to, data |-> d]
    /\ UNCHANGED <<io, sockets, users, userKeys, hangoutUsers, messages, chats, pending>>

\* socket.js:134, 144: a client that sends the event without an argument makes
\* `data.to` (`d.from` in the video-offer handler) throw a TypeError
RelayNoArgument(s, event) ==
    /\ sockets[s] = "connected"
    /\ emitted' = <<>>
    /\ error' = TRUE
    /\ last' = [op |-> event, to |-> 0, data |-> Undefined]
    /\ UNCHANGED <<io, sockets, users, userKeys, hangoutUsers, messages, chats, pending>>

\* socket.js:184-203: notifyUserFollowed(followedUserId, payload)
UserFollowedEmits(followedUserId, payload) ==
    IF ~io THEN <<>>
    ELSE IF ~Online(followedUserId) \/ users[followedUserId].socketIds = {} THEN <<>>
    ELSE ToEach(users[followedUserId].socketIds, "userFollowed", payload)

NotifyUserFollowed(followedUserId, payload) ==
    /\ emitted' = UserFollowedEmits(followedUserId, payload)
    /\ error' = FALSE
    /\ last' = [op |-> "userFollowed", to |-> followedUserId, data |-> payload]
    /\ UNCHANGED <<io, sockets, users, userKeys, hangoutUsers, messages, chats, pending>>

(* ----------------------------- disconnect ------------------------------ *)
\* socket.js:156-166: the user whose entry the disconnect empties and deletes
\* (0 when there is none)
Freed(s) ==
    LET k == ScanFor(s)
    IN  IF k # 0 /\ users[userKeys[k]].socketIds \ {s} = {} THEN userKeys[k] ELSE 0

\* a teardown that forgets `delete users[uid]`
UsersAfterDisconnect_NoDelete(s) ==
    LET k == ScanFor(s)
    IN  IF k = 0 THEN users
        ELSE [users EXCEPT ![userKeys[k]].socketIds = @ \ {s}]

\* socket.js:156-166: the registry after the scan; `break` ends it at the first hit
UsersAfterDisconnect(s) ==
    LET k == ScanFor(s)
    IN  IF k = 0 THEN users
        ELSE IF Freed(s) # 0
        THEN [u \in DOMAIN users \ {userKeys[k]} |-> users[u]]
        ELSE [users EXCEPT ![userKeys[k]].socketIds = @ \ {s}]

\* a suspended registerUser handler keeps its `entry` object when the registry
\* drops it
Detach(p, uid) ==
    [i \in 1..Len(p) |->
        IF p[i].op = "registerUser" /\ p[i].userId = uid /\ p[i].attached
        THEN [p[i] EXCEPT !.attached = FALSE, !.x = users[uid].x, !.y = users[uid].y]
        ELSE p[i]]

\* a teardown that announces a departure whether or not the socket was found
Disconnect_AnnounceAlways(s) ==
    /\ sockets[s] = "connected"
    /\ sockets' = [sockets EXCEPT ![s] = "disconnected"]
    /\ users' = UsersAfterDisconnect(s)
    /\ userKeys' = IF Freed(s) # 0 THEN RemoveAt(userKeys, ScanFor(s)) ELSE userKeys
    /\ pending' = IF Freed(s) # 0 THEN Detach(pending, Freed(s)) ELSE pending
    /\ emitted' = BroadcastEmit(s, "userLeft", [userId |-> Freed(s)])
    /\ last' = [op |-> "disconnect", socket |-> s, freed |-> Freed(s),
                held |-> {u \in DOMAIN users : s \in users[u].socketIds}]
    /\ error' = FALSE
    /\ UNCHANGED <<io, hangoutUsers, messages, chats>>

\* socket.js:153-167
Disconnect(s) ==
    /\ sockets[s] = "connected"
    /\ sockets' = [sockets EXCEPT ![s] = "disconnected"]
    /\ users' = UsersAfterDisconnect(s)
    /\ userKeys' = IF Freed(s) # 0 THEN RemoveAt(userKeys, ScanFor(s)) ELSE userKeys
    /\ pending' = IF Freed(s) # 0 THEN Detach(pending, Freed(s)) ELSE pending
    /\ emitted' = IF Freed(s) # 0
                  THEN BroadcastEmit(s, "userLeft", [userId |-> Freed(s)])
                  ELSE <<>>
    /\ last' = [op |-> "disconnect", socket |-> s, freed |-> Freed(s),
                held |-> {u \in DOMAIN users : s \in users[u].socketIds}]
    /\ error' = FALSE
    /\ UNCHANGED <<io, hangoutUsers, messages, chats>>

(* --------------------------- chat messages ----------------------------- *)
\* chatService.js:228: the _id of the "System Admin" user, who never connects
SYSTEM_ADMIN_ID == MaxUsers + 1

\* the entries built at socket.js:36-43 carry socketIds, firstName, lastName,
\* x, y and tableId: reading their `socketId` property yields undefined
SocketId(entry) == Undefined

\* Chat.findById(chatId): the index of the chat, 0 for null
FindById(chatId) == IF chatId \in 1..Len(chats) THEN chatId ELSE 0

\* chatService.js:246-249: Chat.findOne({ participantsKey, isGroupChat: false })
FindPrivateChat(key) ==
    LET hits == {i \in 1..Len(chats) : ~chats[i].isGroupChat /\ chats[i].participantsKey = key}
    IN  IF hits = {} THEN 0 ELSE CHOOSE i \in hits : \A j \in hits : i <= j

\* chatService.js:253-257: new Chat({ isGroupChat: false, participantsKey, participants })
NewPrivateChat(a, b) ==
    [participants |-> <<a, b>>, participantsKey |-> {a, b}, isGroupChat |-> FALSE,
     notifiedUsers |-> <<>>]

\* messageController.js:41-46, part_007:32-37, chatService.js:412-417
NewMessage(chatId, senderId) ==
    [chatId |-> chatId, senderId |-> senderId, isReadBy |-> {senderId}]

\* whether p occurs in the sequence q
Includes(q, p) == \E j \in 1..Len(q) : q[j] = p

\* messageController.js:56-68: each participant's entry?.socketIds?.forEach(
\* sid => io.to(sid).emit("messageCreated", ...))
RECURSIVE MessageCreatedEmits(_, _)
MessageCreatedEmits(participants, payload) ==
    IF participants = <<>> THEN <<>>
    ELSE (IF Online(Head(participants))
          THEN ToEach(users[Head(participants)].socketIds, "messageCreated", payload)
          ELSE <<>>)
         \o MessageCreatedEmits(Tail(participants), payload)

\* messageController.js:75: const online = !!users[pid]?.socketId
OnlineBySocketId(pid) == Online(pid) /\ SocketId(users[pid]) # Undefined

\* messageController.js:71-98: the participants the loop pushes to
\* chat.notifiedUsers, given the notifiedUsers the loaded chat holds
RECURSIVE NewlyNotified(_, _, _)
NewlyNotified(participants, senderId, notifiedUsers) ==
    IF participants = <<>> THEN <<>>
    ELSE LET pid  == Head(participants)
             push == /\ pid # senderId
                     /\ ~OnlineBySocketId(pid)
                     /\ ~Includes(notifiedUsers, pid)
         IN  (IF push THEN <<pid>> ELSE <<>>)
             \o NewlyNotified(Tail(participants), senderId,
                              IF push THEN Append(notifiedUsers, pid) ELSE notifiedUsers)

\* part_007:46-62: a participant is pushed messageCreated through the
\* `socketId` of its entry
RECURSIVE ServiceEmits(_, _)
ServiceEmits(participants, payload) ==
    IF participants = <<>> THEN <<>>
    ELSE (IF OnlineBySocketId(Head(participants))
          THEN <<Emit("to", SocketId(users[Head(participants)]), "messageCreated", payload)>>
          ELSE <<>>)
         \o ServiceEmits(Tail(participants), payload)

\* chatService.js:421-436: messageCreated for the followed user
FollowEmits(userIdToFollow, payload) ==
    IF io /\ OnlineBySocketId(userIdToFollow)
    THEN <<Emit("to", SocketId(users[userIdToFollow]), "messageCreated", payload)>>
    ELSE <<>>

\* a REST handler or service ends: with its response, or by throwing to its
\* caller
Respond(i, op, status) ==
    /\ pending' = RemoveAt(pending, i)
    /\ emitted' = <<>>
    /\ last' = [op |-> op, status |-> status]

\* messageController.js:12-26: POST /chats/:chatId/messages with a valid id and
\* content, up to `await Chat.findById`
SendMessage(chatId, senderId) ==
    /\ pending' = Append(pending,
          [op |-> "sendMessage", pc |-> "findById", chatId |-> chatId,
           senderId |-> senderId, participants |-> <<>>, notifiedUsers |-> <<>>,
           pushed |-> <<>>])
    /\ emitted' = <<>>
    /\ last' = [op |-> "sendMessage", chatId |-> chatId, senderId |-> senderId]
    /\ error' = FALSE
    /\ UNCHANGED <<io, sockets, users, userKeys, hangoutUsers, messages, chats>>

\* messageController.js:26-47: the chat is loaded and checked, the handler
\* suspends at `await newMessage.save()`
SendMessageFindById(i, ok) ==
    /\ i \in 1..Len(pending)
    /\ pending[i].op = "sendMessage"
    /\ pending[i].pc = "findById"
    /\ LET t == pending[i]
           c == FindById(t.chatId)
       IN  IF ~ok THEN Respond(i, "sendMessage.response", "500")
           ELSE IF c = 0 THEN Respond(i, "sendMessage.response", "404")
           ELSE IF ~Includes(chats[c].participants, t.senderId)
           THEN Respond(i, "sendMessage.response", "403")
           ELSE /\ pending' = [pending EXCEPT ![i] =
                      [t EXCEPT !.pc = "save", !.participants = chats[c].participants,
                                !.notifiedUsers = chats[c].notifiedUsers]]
                /\ emitted' = <<>>
                /\ last' = [op |-> "sendMessage.findById", chatId |-> t.chatId]
    /\ error' = FALSE
    /\ UNCHANGED <<io, sockets, users, userKeys, hangoutUsers, messages, chats>>

\* messageController.js:47-99: the message is stored, messageCreated is
\* pushed, the offline participants are recorded and the handler suspends at
\* `await chat.save()`
SendMessageSave(i, ok) ==
    /\ i \in 1..Len(pending)
    /\ pending[i].op = "sendMessage"
    /\ pending[i].pc = "save"
    /\ LET t == pending[i]
           m == NewMessage(t.chatId, t.senderId)
           pushed == NewlyNotified(t.participants, t.senderId, t.notifiedUsers)
       IN  IF ok
           THEN /\ Len(messages) < MaxMessages
                /\ messages' = Append(messages, m)
                /\ emitted' = MessageCreatedEmits(t.participants,
                                                  [chatId |-> t.chatId, message |-> m])
                /\ pending' = [pending EXCEPT ![i] =
                                 [t EXCEPT !.pc = "saveChat", !.pushed = pushed]]
                /\ last' = [op |-> "sendMessage.sent", chatId |-> t.chatId,
                            senderId |-> t.senderId, participants |-> t.participants,
                            offline |-> {t.participants[j] : j \in
                                           {k \in 1..Len(t.participants) :
                                               /\ t.participants[k] # t.senderId
                                               /\ ~OnlineBySocketId(t.participants[k])}},
                            pushed |-> pushed]
           ELSE /\ Respond(i, "sendMessage.response", "500")
                /\ UNCHANGED messages
    /\ error' = FALSE
    /\ UNCHANGED <<io, sockets, users, userKeys, hangoutUsers, chats>>

\* messageController.js:99-107: chat.save() appends the pushed ids to the
\* stored notifiedUsers; the response follows
SendMessageSaveChat(i, ok) ==
    /\ i \in 1..Len(pending)
    /\ pending[i].op = "sendMessage"
    /\ pending[i].pc = "saveChat"
    /\ LET t == pending[i]
       IN  IF ok
           THEN /\ chats' = [chats EXCEPT ![t.chatId].notifiedUsers = @ \o t.pushed]
                /\ Respond(i, "sendMessage.response", "201")
           ELSE /\ Respond(i, "sendMessage.response", "500")
                /\ UNCHANGED chats
    /\ error' = FALSE
    /\ UNCHANGED <<io, sockets, users, userKeys, hangoutUsers, messages>>

\* part_007:12-14: sendMessageService up to `await Chat.findById`
SendMessageService(chatId, senderId) ==
    /\ pending' = Append(pending,
          [op |-> "sendMessageService", pc |-> "findById", chatId |-> chatId,
           senderId |-> senderId, participants |-> <<>>])
    /\ emitted' = <<>>
    /\ last' = [op |-> "sendMessageService", chatId |-> chatId, senderId |-> senderId]
    /\ error' = FALSE
    /\ UNCHANGED <<io, sockets, users, userKeys, hangoutUsers, messages, chats>>

\* part_007:14-26: the chat is loaded and checked; the service suspends at
\* `await User.findById(senderId)`, or throws
ServiceFindById(i, ok) ==
    /\ i \in 1..Len(pending)
    /\ pending[i].op = "sendMessageService"
    /\ pending[i].pc = "findById"
    /\ LET t == pending[i]
           c == FindById(t.chatId)
       IN  IF ok /\ c # 0 /\ Includes(chats[c].participants, t.senderId)
           THEN /\ pending' = [pending EXCEPT ![i] =
                      [t EXCEPT !.pc = "findSender", !.participants = chats[c].participants]]
                /\ emitted' = <<>>
                /\ last' = [op |-> "sendMessageService.findById", chatId |-> t.chatId]
                /\ error' = FALSE
           ELSE /\ Respond(i, "sendMessageService.thrown", "Error")
                /\ error' = TRUE
    /\ UNCHANGED <<io, sockets, users, userKeys, hangoutUsers, messages, chats>>

\* part_007:26-38: the sender is loaded (ok) or missing; the service suspends
\* at `await newMessage.save()`, or throws
ServiceFindSender(i, ok) ==
    /\ i \in 1..Len(pending)
    /\ pending[i].op = "sendMessageService"
    /\ pending[i].pc = "findSender"
    /\ IF ok
       THEN /\ pending' = [pending EXCEPT ![i].pc = "save"]
            /\ emitted' = <<>>
            /\ last' = [op |-> "sendMessageService.findSender",
                        chatId |-> pending[i].chatId]
            /\ error' = FALSE
       ELSE /\ Respond(i, "sendMessageService.thrown", "Error")
            /\ error' = TRUE
    /\ UNCHANGED <<io, sockets, users, userKeys, hangoutUsers, messages, chats>>

\* part_007:38-42: the message is stored; the service suspends at
\* `await chat.save()`, which writes updatedAt
ServiceSave(i, ok) ==
    /\ i \in 1..Len(pending)
    /\ pending[i].op = "sendMessageService"
    /\ pending[i].pc = "save"
    /\ LET t == pending[i]
       IN  IF ok
           THEN /\ Len(messages) < MaxMessages
                /\ messages' = Append(messages, NewMessage(t.chatId, t.senderId))
                /\ pending' = [pending EXCEPT ![i].pc = "saveChat"]
                /\ emitted' = <<>>
                /\ last' = [op |-> "sendMessageService.save", chatId |-> t.chatId]
                /\ error' = FALSE
           ELSE /\ Respond(i, "sendMessageService.thrown", "Error")
                /\ error' = TRUE
                /\ UNCHANGED messages
    /\ UNCHANGED <<io, sockets, users, userKeys, hangoutUsers, chats>>

\* part_007:42-64: chat.save() returns, messageCreated is pushed and the
\* service returns the message
ServiceSaveChat(i, ok) ==
    /\ i \in 1..Len(pending)
    /\ pending[i].op = "sendMessageService"
    /\ pending[i].pc = "saveChat"
    /\ LET t == pending[i]
       IN  IF ok
           THEN /\ pending' = RemoveAt(pending, i)
                /\ emitted' = ServiceEmits(t.participants,
                                 [message |-> NewMessage(t.chatId, t.senderId)])
                /\ last' = [op |-> "sendMessageService.sent", chatId |-> t.chatId,
                            senderId |-> t.senderId, participants |-> t.participants]
                /\ error' = FALSE
           ELSE /\ Respond(i, "sendMessageService.thrown", "Error")
                /\ error' = TRUE
    /\ UNCHANGED <<io, sockets, users, userKeys, hangoutUsers, messages, chats>>

\* chatService.js:377-379: followUserService up to its first await
FollowUser(loggedInUserId, userIdToFollow) ==
    /\ pending' = Append(pending,
          [op |-> "followUser", pc |-> "users", loggedInUserId |-> loggedInUserId,
           userIdToFollow |-> userIdToFollow, chatId |-> 0])
    /\ emitted' = <<>>
    /\ last' = [op |-> "followUser", userIdToFollow |-> userIdToFollow]
    /\ error' = FALSE
    /\ UNCHANGED <<io, sockets, users, userKeys, hangoutUsers, messages, chats>>

\* chatService.js:379-407: both users are loaded and saved with their
\* follower lists (four operations on the User collection, which holds no
\* state of the registry, the chats or the messages); notifyUserFollowed
\* runs, and the service suspends at `await Chat.findOne`.  A missing user
\* returns { notFound: true }.
FollowNotify(i, ok) ==
    /\ i \in 1..Len(pending)
    /\ pending[i].op = "followUser"
    /\ pending[i].pc = "users"
    /\ LET t == pending[i]
       IN  IF ok
           THEN /\ pending' = [pending EXCEPT ![i].pc = "findChat"]
                /\ emitted' = UserFollowedEmits(t.userIdToFollow,
                                 [followerId |-> t.loggedInUserId])
                /\ last' = [op |-> "followUser.notified", to |-> t.userIdToFollow]
           ELSE Respond(i, "followUser.response", "notFound")
    /\ error' = FALSE
    /\ UNCHANGED <<io, sockets, users, userKeys, hangoutUsers, messages, chats>>

\* chatService.js:242-259, 407: findOrCreatePrivateChat looks the chat of the
\* System Admin and the followed user up; the service suspends at
\* `await chat.save()` of a new chat, or at `await newMessage.save()`
FollowFindChat(i, ok) ==
    /\ i \in 1..Len(pending)
    /\ pending[i].op = "followUser"
    /\ pending[i].pc = "findChat"
    /\ LET t == pending[i]
           c == FindPrivateChat({SYSTEM_ADMIN_ID, t.userIdToFollow})
       IN  IF ok
           THEN /\ pending' = [pending EXCEPT ![i] =
                      [t EXCEPT !.pc = IF c = 0 THEN "saveChat" ELSE "save", !.chatId = c]]
                /\ emitted' = <<>>
                /\ last' = [op |-> "followUser.findChat", to |-> t.userIdToFollow]
                /\ error' = FALSE
           ELSE /\ Respond(i, "followUser.thrown", "Error")
                /\ error' = TRUE
    /\ UNCHANGED <<io, sockets, users, userKeys, hangoutUsers, messages, chats>>

\* chatService.js:252-258: the new private chat is stored; the unique index on
\* participantsKey (Chat.js:15-20, 37-40) rejects a second chat of the pair
FollowSaveChat(i, ok) ==
    /\ i \in 1..Len(pending)
    /\ pending[i].op = "followUser"
    /\ pending[i].pc = "saveChat"
    /\ LET t == pending[i]
       IN  IF ok /\ FindPrivateChat({SYSTEM_ADMIN_ID, t.userIdToFollow}) = 0
           THEN /\ Len(chats) < MaxChats
                /\ chats' = Append(chats, NewPrivateChat(SYSTEM_ADMIN_ID, t.userIdToFollow))
                /\ pending' = [pending EXCEPT ![i] =
                                 [t EXCEPT !.pc = "save", !.chatId = Len(chats) + 1]]
                /\ emitted' = <<>>
                /\ last' = [op |-> "followUser.saveChat", to |-> t.userIdToFollow]
                /\ error' = FALSE
           ELSE /\ Respond(i, "followUser.thrown", "Error")
                /\ error' = TRUE
                /\ UNCHANGED chats
    /\ UNCHANGED <<io, sockets, users, userKeys, hangoutUsers, messages>>

\* chatService.js:412-438: the system message is stored and messageCreated is
\* pushed to the followed user
FollowSave(i, ok) ==
    /\ i \in 1..Len(pending)
    /\ pending[i].op = "followUser"
    /\ pending[i].pc = "save"
    /\ LET t == pending[i]
           m == NewMessage(t.chatId, SYSTEM_ADMIN_ID)
       IN  IF ok
           THEN /\ Len(messages) < MaxMessages
                /\ messages' = Append(messages, m)
                /\ pending' = RemoveAt(pending, i)
                /\ emitted' = FollowEmits(t.userIdToFollow,
                                          [chatId |-> t.chatId, message |-> m])
                /\ last' = [op |-> "followUser.sent", chatId |-> t.chatId,
                            senderId |-> SYSTEM_ADMIN_ID,
                            participants |-> chats[t.chatId].participants]
                /\ error' = FALSE
           ELSE /\ Respond(i, "followUser.thrown", "Error")
                /\ error' = TRUE
                /\ UNCHANGED messages
    /\ UNCHANGED <<io, sockets, users, userKeys, hangoutUsers, chats>>

(* --------------------------- chat creation ----------------------------- *)
\* [...new Set(ids)]: the ids in order of first occurrence
RECURSIVE Unique(_)
Unique(q) ==
    IF q = <<>> THEN <<>>
    ELSE LET init == Unique(SubSeq(q, 1, Len(q) - 1))
         IN  IF Includes(init, q[Len(q)]) THEN init ELSE Append(init, q[Len(q)])

\* chatService.js:37: uniqueParticipants.sort() of two ids, in place
SortPair(q) == IF q[1] <= q[2] THEN q ELSE <<q[2], q[1]>>

\* chatService.js:167-172: new Chat({ isGroupChat: true, participants,
\* participantsKey: null }); the empty set stands for the null key
NewGroupChat(participants) ==
    [participants |-> participants, participantsKey |-> {}, isGroupChat |-> TRUE,
     notifiedUsers |-> <<>>]

\* chatService.js:66-75, 179-187: a participant is pushed chatCreated through
\* the `socketId` of its entry
RECURSIVE ChatCreatedEmits(_, _)
ChatCreatedEmits(participants, payload) ==
    IF participants = <<>> THEN <<>>
    ELSE (IF OnlineBySocketId(Head(participants))
          THEN <<Emit("to", SocketId(users[Head(participants)]), "chatCreated", payload)>>
          ELSE <<>>)
         \o ChatCreatedEmits(Tail(participants), payload)

\* a service throws out of its first segment
Throw(op) ==
    /\ emitted' = <<>>
    /\ last' = [op |-> op, status |-> "Error"]
    /\ error' = TRUE
    /\ UNCHANGED pending

\* chatService.js:12-24: createChatService checks its arguments and suspends
\* at `await User.find`
CreateChat(fromId, toIds, groupName) ==
    /\ IF toIds = <<>> \/ Includes(toIds, fromId)
       THEN Throw("createChat.thrown")
       ELSE /\ pending' = Append(pending,
                  [op |-> "createChat", pc |-> "findUsers",
                   participants |-> Unique(<<fromId>> \o toIds),
                   groupName |-> groupName])
            /\ emitted' = <<>>
            /\ last' = [op |-> "createChat", fromId |-> fromId]
            /\ error' = FALSE
    /\ UNCHANGED <<io, sockets, users, userKeys, hangoutUsers, messages, chats>>

\* chatService.js:24-53: the user documents are loaded (the ids are those of
\* stored users); a pair suspends at `await Chat.findOne` with its ids
\* sorted, a group with a name goes on to `await newChat.save()`
CreateChatFindUsers(i, ok) ==
    /\ i \in 1..Len(pending)
    /\ pending[i].op = "createChat"
    /\ pending[i].pc = "findUsers"
    /\ LET t == pending[i]
           pair == Len(t.participants) = 2
       IN  IF ok /\ (pair \/ OrDefault(t.groupName, "") # "")
           THEN /\ pending' = [pending EXCEPT ![i] =
                      [t EXCEPT !.pc = IF pair THEN "findOne" ELSE "save",
                                !.participants = IF pair THEN SortPair(@) ELSE @]]
                /\ emitted' = <<>>
                /\ last' = [op |-> "createChat.findUsers"]
                /\ error' = FALSE
           ELSE /\ Respond(i, "createChat.thrown", "Error")
                /\ error' = TRUE
    /\ UNCHANGED <<io, sockets, users, userKeys, hangoutUsers, messages, chats>>

\* chatService.js:40-46: the private chat of the pair exists and is returned,
\* or the service goes on to `await newChat.save()`
CreateChatFindOne(i, ok) ==
    /\ i \in 1..Len(pending)
    /\ pending[i].op = "createChat"
    /\ pending[i].pc = "findOne"
    /\ LET t == pending[i]
           c == FindPrivateChat({t.participants[1], t.participants[2]})
       IN  IF ~ok
           THEN /\ Respond(i, "createChat.thrown", "Error")
                /\ error' = TRUE
           ELSE IF c # 0
           THEN /\ Respond(i, "createChat.returned", "existing")
                /\ error' = FALSE
           ELSE /\ pending' = [pending EXCEPT ![i].pc = "save"]
                /\ emitted' = <<>>
                /\ last' = [op |-> "createChat.findOne"]
                /\ error' = FALSE
    /\ UNCHANGED <<io, sockets, users, userKeys, hangoutUsers, messages, chats>>

\* chatService.js:56-77: the new chat is stored (the unique index on
\* participantsKey rejects a second private chat of the pair) and chatCreated
\* is pushed to the participants
CreateChatSave(i, ok) ==
    /\ i \in 1..Len(pending)
    /\ pending[i].op = "createChat"
    /\ pending[i].pc = "save"
    /\ LET t == pending[i]
           pair == Len(t.participants) = 2
           newChat == IF pair THEN NewPrivateChat(t.participants[1], t.participants[2])
                      ELSE NewGroupChat(t.participants)
       IN  IF ok /\ (pair => FindPrivateChat(newChat.participantsKey) = 0)
           THEN /\ Len(chats) < MaxChats
                /\ chats' = Append(chats, newChat)
                /\ pending' = RemoveAt(pending, i)
                /\ emitted' = ChatCreatedEmits(newChat.participants,
                                               [chat |-> Len(chats) + 1])
                /\ last' = [op |-> "createChat.created",
                            participants |-> newChat.participants]
                /\ error' = FALSE
           ELSE /\ Respond(i, "createChat.thrown", "Error")
                /\ error' = TRUE
                /\ UNCHANGED chats
    /\ UNCHANGED <<io, sockets, users, userKeys, hangoutUsers, messages>>

\* chatService.js:164-175: createGroupChatService checks toIds, adds the
\* creator and suspends at `await chat.save()`
CreateGroupChat(userId, toIds, groupName) ==
    /\ IF Len(toIds) < 2
       THEN Throw("createGroupChat.thrown")
       ELSE /\ pending' = Append(pending,
                  [op |-> "createGroupChat", pc |-> "save",
                   participants |-> Unique(toIds \o <<userId>>),
                   groupName |-> groupName])
            /\ emitted' = <<>>
            /\ last' = [op |-> "createGroupChat", userId |-> userId]
            /\ error' = FALSE
    /\ UNCHANGED <<io, sockets, users, userKeys, hangoutUsers, messages, chats>>

\* chatService.js:175-188: the group chat is stored and chatCreated is pushed
\* to the participants
CreateGroupChatSave(i, ok) ==
    /\ i \in 1..Len(pending)
    /\ pending[i].op = "createGroupChat"
    /\ pending[i].pc = "save"
    /\ LET t == pending[i]
       IN  IF ok
           THEN /\ Len(chats) < MaxChats
                /\ chats' = Append(chats, NewGroupChat(t.participants))
                /\ pending' = RemoveAt(pending, i)
                /\ emitted' = ChatCreatedEmits(t.participants, [chat |-> Len(chats) + 1])
                /\ last' = [op |-> "createGroupChat.created",
                            participants |-> t.participants]
                /\ error' = FALSE
           ELSE /\ Respond(i, "createGroupChat.thrown", "Error")
                /\ error' = TRUE
                /\ UNCHANGED chats
    /\ UNCHANGED <<io, sockets, users, userKeys, hangoutUsers, messages>>

(* --------------------------- specifications ---------------------------- *)
RelayData  == [from : {1}, to : UserIds, body : {"sdp"}]
TableIds   == {"t1"}
FollowData == {[followerId |-> 1]}

\* connections come and go
Lifecycle(S) ==
    \/ InitSocket
    \/ \E s \in S : Connect(s)
    \/ \E s \in S : Disconnect(s)

\* registerUser events without names, with x drawn from P, and their
\* continuations with the durable store answering
Registration(S, n, P) ==
    \/ \E s \in S, u \in UserIds, x \in P :
          /\ Len(pending) < n
          /\ RegisterUser(s, u, Undefined, Undefined, x, JSMissing)
    \/ \E i \in 1..n : RegisterFindOne(i, TRUE)
    \/ \E i \in 1..n : RegisterSave(i, TRUE)

\* userMoved and joinTable events naming a user of U, and their durable updates
Movement(S, n, U) ==
    \/ \E s \in S, u \in U :
          /\ Len(pending) < n
          /\ UserMoved(s, u, MovedX, DefaultY)
    \/ \E s \in S, u \in U, t \in TableIds :
          /\ Len(pending) < n
          /\ JoinTable(s, u, t)
    \/ \E i \in 1..n : UserMovedUpdate(i, TRUE)
    \/ \E i \in 1..n : JoinTableUpdate(i, TRUE)

\* the presence registry: connections, registration and teardown
Next ==
    \/ Lifecycle(Sockets)
    \/ Registration(Sockets, MaxPending, {JSMissing})

Spec == Init /\ [][Next]_vars

\* the registry with the targeted relays
NextRelay ==
    \/ Next
    \/ \E s \in Sockets, e \in VideoEvents, d \in RelayData : Relay(s, e, d)
    \/ \E s \in Sockets, e \in VideoEvents : RelayNoArgument(s, e)
    \/ \E u \in UserIds, d \in FollowData : NotifyUserFollowed(u, d)

SpecRelay == Init /\ [][NextRelay]_vars

\* concurrent registrations of users that also move and join tables
NextRoster ==
    \/ Lifecycle(1..ConcSockets)
    \/ Registration(1..ConcSockets, ConcPending, {JSMissing})
    \/ Movement(1..ConcSockets, ConcPending, {1})

SpecRoster == Init /\ [][NextRoster]_vars

\* part_007:32-37, messageController.js:41-46: a message is created with
\* isReadBy: [senderId]
NewMessages ==
    {m \in [1..MaxMessages -> [chatId : ChatIds, senderId : UserIds,
                               isReadBy : SUBSET UserIds]] :
        \A i \in 1..MaxMessages : m[i].isReadBy = {m[i].senderId}}

\* the process starts over a Message collection that holds unread messages
InitRead ==
    /\ io = FALSE
    /\ sockets = [s \in Sockets |-> "none"]
    /\ users = <<>>
    /\ userKeys = <<>>
    /\ hangoutUsers = <<>>
    /\ messages \in NewMessages
    /\ chats = <<>>
    /\ pending = <<>>
    /\ emitted = <<>>
    /\ last = [op |-> "load"]
    /\ error = FALSE

\* markMessagesAsRead events for the chats of C and their durable update,
\* which may fail
ReadReceipts(S, C) ==
    \/ \E s \in S, c \in C, u \in UserIds :
          /\ Len(pending) < MaxPending
          /\ MarkMessagesAsRead(s, c, u)
    \/ \E i \in 1..MaxPending, ok \in BOOLEAN : MarkMessagesAsReadUpdate(i, ok)

\* read receipts over a message store
NextRead ==
    \/ Lifecycle(1..ReadSockets)
    \/ Registration(1..ReadSockets, MaxPending, {JSMissing})
    \/ ReadReceipts(1..ReadSockets, ChatIds)

SpecRead == InitRead /\ [][NextRead]_vars

\* read receipts among the connections of several users
NextReceipt ==
    \/ Next
    \/ ReadReceipts(Sockets, {1})

SpecReceipt == Init /\ [][NextReceipt]_vars

\* the first names and positions a registerUser payload carries
FirstNames == {Undefined, "Ann"}
Positions  == {JSMissing, JSNumber(MovedX)}

\* registerUser events with a first name of F and an x of P, and their
\* continuations with the durable store answering
Profiles(S, n, F, P) ==
    \/ \E s \in S, u \in UserIds, f \in F, x \in P :
          /\ Len(pending) < n
          /\ RegisterUser(s, u, f, Undefined, x, JSMissing)
    \/ \E i \in 1..n : RegisterFindOne(i, TRUE)
    \/ \E i \in 1..n : RegisterSave(i, TRUE)

\* registrations that carry display fields, of users that move and join tables
NextProfile ==
    \/ Lifecycle(1..ConcSockets)
    \/ Profiles(1..ConcSockets, MaxPending, FirstNames, Positions)
    \/ Movement(1..ConcSockets, MaxPending, {1})

SpecProfile == Init /\ [][NextProfile]_vars

\* registerUser, userMoved and joinTable events whose durable operations
\* answer or reject
Failures(S, n) ==
    \/ \E s \in S, u \in UserIds :
          /\ Len(pending) < n
          /\ RegisterUser(s, u, Undefined, Undefined, JSMissing, JSMissing)
    \/ \E i \in 1..n, ok \in BOOLEAN : RegisterFindOne(i, ok)
    \/ \E i \in 1..n, ok \in BOOLEAN : RegisterSave(i, ok)
    \/ \E s \in S :
          /\ Len(pending) < n
          /\ UserMoved(s, 1, MovedX, DefaultY)
    \/ \E s \in S, t \in TableIds :
          /\ Len(pending) < n
          /\ JoinTable(s, 1, t)
    \/ \E i \in 1..n, ok \in BOOLEAN : UserMovedUpdate(i, ok)
    \/ \E i \in 1..n, ok \in BOOLEAN : JoinTableUpdate(i, ok)

\* the registry over a durable store that can fail
NextFailure ==
    \/ Lifecycle(1..ConcSockets)
    \/ Failures(1..ConcSockets, MaxPending)

SpecFailure == Init /\ [][NextFailure]_vars

\* the process starts over a Chat collection that holds the private chat of
\* users 1 and 2
InitChat ==
    /\ io = FALSE
    /\ sockets = [s \in Sockets |-> "none"]
    /\ users = <<>>
    /\ userKeys = <<>>
    /\ hangoutUsers = <<>>
    /\ messages = <<>>
    /\ chats = <<NewPrivateChat(1, 2)>>
    /\ pending = <<>>
    /\ emitted = <<>>
    /\ last = [op |-> "load"]
    /\ error = FALSE

\* the three REST-side paths that create a message, with durable operations
\* that answer or reject
Messaging(n) ==
    \/ \E c \in ChatIds, u \in UserIds :
          /\ Len(pending) < n
          /\ SendMessage(c, u)
    \/ \E i \in 1..n, ok \in BOOLEAN : SendMessageFindById(i, ok)
    \/ \E i \in 1..n, ok \in BOOLEAN : SendMessageSave(i, ok)
    \/ \E i \in 1..n, ok \in BOOLEAN : SendMessageSaveChat(i, ok)
    \/ \E c \in ChatIds, u \in UserIds :
          /\ Len(pending) < n
          /\ SendMessageService(c, u)
    \/ \E i \in 1..n, ok \in BOOLEAN : ServiceFindById(i, ok)
    \/ \E i \in 1..n, ok \in BOOLEAN : ServiceFindSender(i, ok)
    \/ \E i \in 1..n, ok \in BOOLEAN : ServiceSave(i, ok)
    \/ \E i \in 1..n, ok \in BOOLEAN : ServiceSaveChat(i, ok)
    \/ \E a \in UserIds, b \in UserIds :
          /\ Len(pending) < n
          /\ FollowUser(a, b)
    \/ \E i \in 1..n, ok \in BOOLEAN : FollowNotify(i, ok)
    \/ \E i \in 1..n, ok \in BOOLEAN : FollowFindChat(i, ok)
    \/ \E i \in 1..n, ok \in BOOLEAN : FollowSaveChat(i, ok)
    \/ \E i \in 1..n, ok \in BOOLEAN : FollowSave(i, ok)

\* the registry beside the REST-side message paths
NextChat ==
    \/ Lifecycle(1..ReadSockets)
    \/ Registration(1..ReadSockets, MaxPending, {JSMissing})
    \/ Messaging(MaxPending)

SpecChat == InitChat /\ [][NextChat]_vars

\* events whose payload lacks the required field (registerUser, userMoved and
\* joinTable without userId, video-* with a payload that has no `to`) beside
\* the registrations of user 1, and the continuations of their handlers
Malformed(S, n) ==
    \/ \E s \in S, u \in {1, UndefinedKey} :
          /\ Len(pending) < n
          /\ RegisterUser(s, u, Undefined, Undefined, JSMissing, JSMissing)
    \/ \E i \in 1..n : RegisterFindOne(i, TRUE)
    \/ \E i \in 1..n, ok \in BOOLEAN : RegisterSave(i, ok)
    \/ \E s \in S :
          /\ Len(pending) < n
          /\ UserMoved(s, UndefinedKey, MovedX, DefaultY)
    \/ \E s \in S, t \in TableIds :
          /\ Len(pending) < n
          /\ JoinTable(s, UndefinedKey, t)
    \/ \E i \in 1..n, ok \in BOOLEAN : UserMovedUpdate(i, ok)
    \/ \E i \in 1..n, ok \in BOOLEAN : JoinTableUpdate(i, ok)
    \/ \E s \in S, e \in VideoEvents :
          Relay(s, e, [from |-> 1, to |-> UndefinedKey, body |-> "sdp"])

\* the registry receiving malformed events
NextMalformed ==
    \/ Lifecycle(1..ConcSockets)
    \/ Malformed(1..ConcSockets, MaxPending)

SpecMalformed == Init /\ [][NextMalformed]_vars

\* the opaque payloads of tableCreated
NewTables == {[id |-> "t1"]}

\* the pure broadcasts of a connection: userMoved, joinTable and tableCreated
NextBroadcast ==
    \/ Next
    \/ Movement(Sockets, MaxPending, {1})
    \/ \E s \in Sockets, t \in NewTables : TableCreated(s, t)

SpecBroadcast == Init /\ [][NextBroadcast]_vars

\* the arguments of the chat-creating services: the recipients of a private
\* chat, of a group with the System Admin, and no recipient
CreateTargets == {<<>>, <<1>>, <<2>>, <<2, SYSTEM_ADMIN_ID>>}
GroupTargets  == {<<2>>, <<1, 2>>, <<2, SYSTEM_ADMIN_ID>>}
GroupNames    == {Undefined, "team"}

\* the two services that create a chat, with durable operations that answer
\* or reject
ChatCreation(n) ==
    \/ \E a \in UserIds, q \in CreateTargets, g \in GroupNames :
          /\ Len(pending) < n
          /\ CreateChat(a, q, g)
    \/ \E i \in 1..n, ok \in BOOLEAN : CreateChatFindUsers(i, ok)
    \/ \E i \in 1..n, ok \in BOOLEAN : CreateChatFindOne(i, ok)
    \/ \E i \in 1..n, ok \in BOOLEAN : CreateChatSave(i, ok)
    \/ \E a \in UserIds, q \in GroupTargets, g \in GroupNames :
          /\ Len(pending) < n
          /\ CreateGroupChat(a, q, g)
    \/ \E i \in 1..n, ok \in BOOLEAN : CreateGroupChatSave(i, ok)

\* the registry beside the chat-creating services
NextCreate ==
    \/ Lifecycle(1..ReadSockets)
    \/ Registration(1..ReadSockets, MaxPending, {JSMissing})
    \/ ChatCreation(MaxPending)

SpecCreate == Init /\ [][NextCreate]_vars

\* the events and helpers that only pass messages on, beside the handlers
\* that write the registry
NextFrame ==
    \/ Lifecycle(1..ReadSockets)
    \/ Registration(1..ReadSockets, MaxPending, {JSMissing})
    \/ Movement(1..ReadSockets, MaxPending, {1})
    \/ \E s \in 1..ReadSockets, t \in NewTables : TableCreated(s, t)
    \/ \E s \in 1..ReadSockets, e \in VideoEvents, d \in RelayData : Relay(s, e, d)
    \/ \E u \in UserIds, d \in FollowData : NotifyUserFollowed(u, d)
    \/ ReadReceipts(1..ReadSockets, {1})

SpecFrame == Init /\ [][NextFrame]_vars

(* ------------------------------ claims --------------------------------- *)
\* the userLeft{userId: u} emit calls of the latest step
UserLeftCalls(u) ==
    SelectSeq(emitted, LAMBDA e : e.event = "userLeft" /\ e.payload.userId = u)

\* the entries that hold socket id s
EntriesOf(s) == {u \in DOMAIN users : s \in users[u].socketIds}

\* C1: when a connection of user U disconnects while another live connection
\* of U remains, U keeps its entry and no userLeft{U} is broadcast; when the
\* last live connection of U disconnects, U's entry is removed and exactly one
\* userLeft{userId: U} is broadcast.
C1_MultiConnection ==
    [][\A s \in Sockets : \A u \in DOMAIN users :
          (sockets[s] = "connected" /\ sockets'[s] = "disconnected"
             /\ s \in users[u].socketIds)
          => IF (users[u].socketIds \ {s}) \cap Live # {}
             THEN u \in DOMAIN users' /\ Len(UserLeftCalls(u)') = 0
             ELSE u \notin DOMAIN users'
                  /\ Len(UserLeftCalls(u)') = 1
                  /\ UserLeftCalls(u)'[1].mode = "broadcast"]_vars

\* C2: each connection id is a member of the socketIds of at most one entry.
C2_OneEntryPerSocket ==
    \A s \in Sockets : Cardinality(EntriesOf(s)) <= 1

\* C3: every entry holds at least one live connection, and the id of a
\* disconnected connection is in no entry.
C3_EntryIffLiveConnection ==
    /\ \A u \in DOMAIN users : users[u].socketIds \cap Live # {}
    /\ \A s \in Sockets : sockets[s] = "disconnected" => EntriesOf(s) = {}

\* C4: every entry of the registry has a non-empty socketIds set.
C4_NonEmptySocketIds ==
    \A u \in DOMAIN users : users[u].socketIds # {}

\* a disconnect emptied and deleted one entry while another entry stays
C4_Witness ==
    /\ last.op = "disconnect"
    /\ last.freed # 0
    /\ DOMAIN users # {}

\* C5: a registerUser of a (userId, connection) pair that is already registered
\* leaves the user's socketIds, and the whole registry, as they were; the id is
\* in the set once.
C5_IdempotentRegistration ==
    [][(last'.op = "registerUser" /\ last'.again)
          => /\ users'[last'.userId].socketIds = users[last'.userId].socketIds
             /\ last'.socket \in users'[last'.userId].socketIds
             /\ users' = users
             /\ userKeys' = userKeys]_vars

\* the same pair registered again while the user has a second connection
C5_Witness ==
    /\ last.op = "registerUser"
    /\ last.again
    /\ Cardinality(users[last.userId].socketIds) = 2

\* the events relayed to the connections of one user
TargetedEvents == VideoEvents \cup {"userFollowed"}

\* the latest step relayed a targeted event to user last.to
TargetedRelay(l) == l.op \in TargetedEvents /\ l.to \in UserIds

\* C6: relaying a targeted event to a userId that has no registry entry makes
\* no emit call, leaves the registry and the connections unchanged and throws
\* nothing.
C6_OfflineDropSilent ==
    [][(TargetedRelay(last') /\ last'.to \notin DOMAIN users)
          => /\ emitted' = <<>>
             /\ ~error'
             /\ users' = users
             /\ userKeys' = userKeys
             /\ sockets' = sockets]_vars

\* a video-offer for a user without entry, while another user is online
C6_Witness ==
    /\ TargetedRelay(last)
    /\ last.op = "video-offer"
    /\ ~Online(last.to)
    /\ \E u \in DOMAIN users : users[u].socketIds \cap Live # {}

\* C7: when the target of a targeted event has live connections, each of them
\* receives the event exactly once with the relayed payload and no other
\* connection receives anything.
C7_TargetedDelivery ==
    (TargetedRelay(last) /\ Online(last.to) /\ users[last.to].socketIds \cap Live # {})
    => \A s \in Sockets :
          IF s \in users[last.to].socketIds \cap Live
          THEN /\ Len(Received(s)) = 1
               /\ Received(s)[1].event = last.op
               /\ Received(s)[1].payload = last.data
          ELSE Received(s) = <<>>

\* a relay to a user with two live connections beside a live connection that
\* is not one of that user's
C7_Witness ==
    /\ TargetedRelay(last)
    /\ Online(last.to)
    /\ Cardinality(users[last.to].socketIds \cap Live) = 2
    /\ Live \ users[last.to].socketIds # {}
    /\ emitted # <<>>

\* the existingUsers emit calls of the latest step
ExistingUsersCalls == SelectSeq(emitted, LAMBDA e : e.event = "existingUsers")

\* the user ids of the rows of a roster
RosterIds(r) == {r[i]._id : i \in 1..Len(r)}

\* C8 as stated: the roster sent for a registration holds exactly the users
\* registered before it, each with the position and tableId of its entry.
C8_RosterOfPrevious ==
    last.op = "registerUser.done"
    => /\ Len(ExistingUsersCalls) = 1
       /\ LET r == ExistingUsersCalls[1].payload
          IN  /\ RosterIds(r) = last.prev
              /\ \A i \in 1..Len(r) :
                    /\ r[i]._id \in DOMAIN users
                    /\ r[i].x = users[r[i]._id].x
                    /\ r[i].y = users[r[i]._id].y
                    /\ r[i].tableId = users[r[i]._id].tableId

\* C8, amended: the roster sent for a registration is the registry at the
\* moment it is sent: one row for each user that has an entry then (the users
\* registered before that are still online, those registered meanwhile, and
\* the registering user itself while its entry exists), each with the position
\* and tableId of its entry, sent to the registering connection alone.
C8_RosterIsSnapshot ==
    last.op = "registerUser.done"
    => /\ Len(ExistingUsersCalls) = 1
       /\ ExistingUsersCalls[1].mode = "socket"
       /\ ExistingUsersCalls[1].to = last.socket
       /\ LET r == ExistingUsersCalls[1].payload
          IN  /\ RosterIds(r) = DOMAIN users
              /\ Len(r) = Cardinality(DOMAIN users)
              /\ last.prev \cap DOMAIN users \subseteq RosterIds(r)
              /\ \A i \in 1..Len(r) :
                    /\ r[i].x = users[r[i]._id].x
                    /\ r[i].y = users[r[i]._id].y
                    /\ r[i].tableId = users[r[i]._id].tableId

\* a registration completes while another is still suspended; the roster holds
\* the user registered before it, who has moved and joined a table since, and
\* the registering user
C8_Witness ==
    /\ last.op = "registerUser.done"
    /\ last.userId = 2
    /\ last.prev = {1}
    /\ DOMAIN users = {1, 2}
    /\ users[1].x = MovedX
    /\ users[1].tableId # Null
    /\ \E i \in 1..Len(pending) : pending[i].op = "registerUser"

\* the latest step completed a markMessagesAsRead whose update succeeded
ReadDone == last.op = "markMessagesAsRead.done" /\ last.saved

\* the connections in the entry of user u (none when u has no entry)
SocketIdsOf(u) == IF Online(u) THEN users[u].socketIds ELSE {}

\* connection s received one messagesRead{chatId, userId} of the latest step
\* and nothing else
GotMessagesRead(s) ==
    /\ Len(Received(s)) = 1
    /\ Received(s)[1].event = "messagesRead"
    /\ Received(s)[1].payload = [chatId |-> last.chatId, userId |-> last.userId]

\* the update marked every message of the chat that the reader B did not send
\* and had not read, and changed nothing else
MarkedAsRead ==
    /\ Len(messages) = Len(last.before)
    /\ \A i \in 1..Len(messages) :
          messages[i] =
             IF /\ last.before[i].chatId = last.chatId
                /\ last.before[i].senderId # last.userId
                /\ last.userId \notin last.before[i].isReadBy
             THEN [last.before[i] EXCEPT !.isReadBy = @ \cup {last.userId}]
             ELSE last.before[i]

\* the senders, other than the reader, of the messages of the chat
SendersRead == {last.before[i].senderId : i \in
                  {j \in 1..Len(last.before) :
                      /\ last.before[j].chatId = last.chatId
                      /\ last.before[j].senderId # last.userId}}

\* C9 as stated: after B's markMessagesAsRead on chat C, the messages of C sent
\* by A and unread by B are read by B, and messagesRead is received by the live
\* connections of the sender A and not by those of B.
C9_ReceiptToSender ==
    ReadDone
    => /\ MarkedAsRead
       /\ \A s \in Live :
             /\ (\E a \in SendersRead : s \in SocketIdsOf(a)) => GotMessagesRead(s)
             /\ s \in SocketIdsOf(last.userId) => Received(s) = <<>>

\* C9, amended: after B's markMessagesAsRead on chat C whose update succeeds,
\* the messages of C sent by A and unread by B are read by B in the store (and
\* no other message changes), and messagesRead{chatId: C, userId: B} is
\* received once by each live connection of the reader B and by no connection
\* that is not one of B's, so not by those of the sender A.
C9_ReceiptToReader ==
    ReadDone
    => /\ MarkedAsRead
       /\ \A s \in Live :
             IF s \in SocketIdsOf(last.userId)
             THEN GotMessagesRead(s)
             ELSE Received(s) = <<>>

\* B marks a chat that holds a message of A unread by B, while A and B each have
\* a live connection of their own
C9_Witness ==
    /\ ReadDone
    /\ \E i \in 1..Len(messages) :
          /\ last.before[i].chatId = last.chatId
          /\ last.before[i].senderId # last.userId
          /\ last.userId \notin last.before[i].isReadBy
          /\ last.userId \in messages[i].isReadBy
          /\ \E a \in Live, b \in Live :
                /\ a \in SocketIdsOf(last.before[i].senderId)
                /\ a \notin SocketIdsOf(last.userId)
                /\ b \in SocketIdsOf(last.userId)

\* C10: every messagesRead emit call of a markMessagesAsRead{chatId, userId}
\* targets a socket id of the entry of userId; when the update succeeds each
\* live connection of userId receives it once, and no other connection
\* receives anything.
C10_ReceiptRecipients ==
    last.op = "markMessagesAsRead.done"
    => /\ \A i \in 1..Len(emitted) :
             /\ emitted[i].event = "messagesRead"
             /\ emitted[i].mode = "to"
             /\ emitted[i].to \in SocketIdsOf(last.userId)
       /\ \A s \in Live :
             IF last.saved /\ s \in SocketIdsOf(last.userId)
             THEN GotMessagesRead(s)
             ELSE Received(s) = <<>>

\* the reader has two live connections and another user a third
C10_Witness ==
    /\ ReadDone
    /\ Cardinality(SocketIdsOf(last.userId) \cap Live) = 2
    /\ \E u \in DOMAIN users : u # last.userId
          /\ (users[u].socketIds \cap Live) \ SocketIdsOf(last.userId) # {}
    /\ Len(emitted) = 2

\* the emit calls of event ev of the latest step that reach connection s
EventsTo(s, ev) == SelectSeq(Received(s), LAMBDA e : e.event = ev)

\* C11: when a registerUser handler emits, the roster is one socket.emit to the
\* registering connection, received by it alone, and userJoined is received
\* once by every other live connection and never by the registering one.
C11_RosterAndJoinRecipients ==
    last.op = "registerUser.done"
    => /\ Len(ExistingUsersCalls) = 1
       /\ ExistingUsersCalls[1].mode = "socket"
       /\ ExistingUsersCalls[1].to = last.socket
       /\ \A s \in Sockets :
             /\ Len(EventsTo(s, "existingUsers")) =
                   IF s = last.socket /\ s \in Live THEN 1 ELSE 0
             /\ Len(EventsTo(s, "userJoined")) =
                   IF s \in Live \ {last.socket} THEN 1 ELSE 0

\* a registration completes on a live connection while two other connections
\* are live, one of them of the same user
C11_Witness ==
    /\ last.op = "registerUser.done"
    /\ last.socket \in Live
    /\ Cardinality(Live \ {last.socket}) = 2
    /\ Online(last.userId)
    /\ (users[last.userId].socketIds \cap Live) \ {last.socket} # {}

\* C12: the disconnect of a connection that is in no entry (a connected socket
\* is in no entry exactly when it never registered: only its own disconnect
\* removes its id) leaves the registry unchanged and makes no emit call.
C12_UnregisteredDisconnect ==
    [][\A s \in Sockets :
          (sockets[s] = "connected" /\ sockets'[s] = "disconnected"
             /\ EntriesOf(s) = {})
          => /\ users' = users
             /\ userKeys' = userKeys
             /\ emitted' = <<>>
             /\ ~error']_vars

\* a connection that never registered disconnects while a registered user has
\* live connections
C12_Witness ==
    /\ last.op = "disconnect"
    /\ last.held = {}
    /\ \E u \in DOMAIN users : users[u].socketIds \cap Live # {}

\* C13: a userMoved or joinTable naming a userId without entry leaves the
\* registry as it was (no entry created, none changed); when the entry exists
\* its position or tableId is replaced in place and nothing else changes.
C13_MoveWithoutEntry ==
    [][last'.op \in {"userMoved", "joinTable"}
          => LET u == last'.userId
                 p == emitted'[1].payload
             IN  /\ userKeys' = userKeys
                 /\ users' =
                       IF ~Online(u) THEN users
                       ELSE IF last'.op = "userMoved"
                       THEN [users EXCEPT ![u].x = p.x, ![u].y = p.y]
                       ELSE [users EXCEPT ![u].tableId = p.tableId]]_vars

\* a userMoved naming a user whose last connection has disconnected, sent
\* while another user is online
C13_Witness ==
    /\ last.op = "userMoved"
    /\ ~Online(last.userId)
    /\ \E s \in Sockets : sockets[s] = "disconnected"
    /\ DOMAIN users # {}
    /\ Len(emitted) = 1

\* C14: a registerUser for a user that has an entry adds the connection id to
\* the entry and changes nothing else: firstName, lastName, x, y and tableId
\* stay whatever the payload carries, and no other entry changes.
C14_RepeatKeepsFields ==
    [][(last'.op = "registerUser" /\ Online(last'.userId))
          => /\ users' = [users EXCEPT ![last'.userId].socketIds = @ \cup {last'.socket}]
             /\ userKeys' = userKeys]_vars

\* a second connection registers for a user who sits at a table, with a first
\* name and a position that differ from the entry's
C14_Witness ==
    /\ last.op = "registerUser"
    /\ Online(last.userId)
    /\ Cardinality(users[last.userId].socketIds) = 2
    /\ last.payload.firstName = "Ann"
    /\ users[last.userId].firstName = DefaultFirstName
    /\ last.payload.x = JSNumber(MovedX)
    /\ users[last.userId].x = DefaultX
    /\ users[last.userId].tableId # Null

\* C15: whatever the interleaving of the registerUser handlers, a registration
\* puts its connection id into the user's socketIds at once, and no step takes
\* the id of a connection that stays live out of an entry: every live
\* connection that registered as U is in U's socketIds.
C15_NoLostAdd ==
    [][/\ last'.op = "registerUser"
             => /\ last'.userId \in DOMAIN users'
                /\ last'.socket \in users'[last'.userId].socketIds
       /\ \A u \in DOMAIN users : \A s \in users[u].socketIds :
             sockets'[s] = "connected"
             => u \in DOMAIN users' /\ s \in users'[u].socketIds]_vars

\* one registerUser handler of a user completes while the handler of another
\* connection of the same user is still suspended; both ids are in the entry
C15_Witness ==
    /\ last.op = "registerUser.done"
    /\ Online(last.userId)
    /\ last.socket \in users[last.userId].socketIds \cap Live
    /\ \E i \in 1..Len(pending) :
          /\ pending[i].op = "registerUser"
          /\ pending[i].userId = last.userId
          /\ pending[i].socket # last.socket
          /\ pending[i].socket \in users[last.userId].socketIds \cap Live

\* C16: once no handler is pending (no durable operation having failed), the
\* HangoutUser record of every online user holds the x, y and tableId of the
\* user's registry entry.
C16_DurableMirrorsRegistry ==
    pending = <<>>
    => \A u \in DOMAIN users :
          /\ FindOne(u) # 0
          /\ hangoutUsers[FindOne(u)].x = users[u].x
          /\ hangoutUsers[FindOne(u)].y = users[u].y
          /\ hangoutUsers[FindOne(u)].tableId = users[u].tableId

\* C17: a durable operation that fails in registerUser, userMoved or joinTable
\* changes neither the registry nor the store and throws nothing; the failed
\* registerUser still emits existingUsers to its connection and broadcasts
\* userJoined, with its connection (while live) still in the entry; userMoved
\* and joinTable broadcast before their durable operation is issued.
C17_FailureSwallowed ==
    [][/\ (last'.op \in {"registerUser.done", "userMoved.done", "joinTable.done"}
             /\ ~last'.saved)
          => /\ users' = users
             /\ userKeys' = userKeys
             /\ hangoutUsers' = hangoutUsers
             /\ ~error'
       /\ (last'.op = "registerUser.done" /\ ~last'.saved)
          => /\ Len(emitted') = 2
             /\ emitted'[1] = Emit("socket", last'.socket, "existingUsers", Roster')
             /\ emitted'[2].mode = "broadcast"
             /\ emitted'[2].to = last'.socket
             /\ emitted'[2].event = "userJoined"
             /\ emitted'[2].payload.userId = last'.userId
             /\ sockets'[last'.socket] = "connected"
                   => /\ last'.userId \in DOMAIN users'
                      /\ last'.socket \in users'[last'.userId].socketIds
       /\ last'.op = "userMoved"
          => /\ Len(emitted') = 1
             /\ emitted'[1].mode = "broadcast"
             /\ emitted'[1].event = "userMoved"
       /\ last'.op = "joinTable"
          => /\ Len(emitted') = 1
             /\ emitted'[1].mode = "broadcast"
             /\ emitted'[1].event = "tableJoined"]_vars

\* a durable operation of a registration rejects while the registering
\* connection and another connection are live; the user stays registered and
\* has no record
C17_Witness ==
    /\ last.op = "registerUser.done"
    /\ ~last.saved
    /\ Online(last.userId)
    /\ last.socket \in users[last.userId].socketIds \cap Live
    /\ Live \ {last.socket} # {}
    /\ FindOne(last.userId) = 0
    /\ Len(emitted) = 2

\* the connections that received messageCreated in the latest step
GotMessageCreated == {s \in Sockets : EventsTo(s, "messageCreated") # <<>>}

\* C18: when a REST-side path has created a message (sendMessage,
\* sendMessageService, the system message of followUserService), every live
\* connection of every participant of the chat who is online at that moment
\* receives messageCreated.
C18_MessageCreatedToParticipants ==
    last.op \in {"sendMessage.sent", "sendMessageService.sent", "followUser.sent"}
    => \A j \in 1..Len(last.participants) :
          SocketIdsOf(last.participants[j]) \cap Live \subseteq GotMessageCreated

\* C19: in sendMessage a participant other than the sender is treated as
\* offline exactly when it has no live connection in the registry, and a
\* participant with a live connection is not added to notifiedUsers.
C19_OfflineDecision ==
    last.op = "sendMessage.sent"
    => \A j \in 1..Len(last.participants) :
          LET pid == last.participants[j]
          IN  pid # last.senderId
              => /\ pid \in last.offline <=> SocketIdsOf(pid) \cap Live = {}
                 /\ Includes(last.pushed, pid) => SocketIdsOf(pid) \cap Live = {}

\* the latest step handled an event that lacks its required field
MissingField(l) ==
    \/ l.op \in {"registerUser", "userMoved", "joinTable"} /\ l.userId = UndefinedKey
    \/ l.op \in VideoEvents /\ l.to = UndefinedKey

\* C20: an inbound event without its required field is ignored: the registry
\* is unchanged, no emit call is made and no durable operation is issued.
C20_MalformedIgnored ==
    [][MissingField(last')
          => /\ users' = users
             /\ userKeys' = userKeys
             /\ emitted' = <<>>
             /\ pending' = pending
             /\ hangoutUsers' = hangoutUsers]_vars

\* the events userMoved, joinTable and tableCreated are broadcast as
BroadcastOf(op) == IF op = "joinTable" THEN "tableJoined" ELSE op

\* C21: a userMoved, joinTable or tableCreated event makes one emit call, of
\* userMoved, tableJoined or tableCreated, that every live connection other
\* than the sending one receives, the other connections of the sending user
\* included, and that the sending connection does not receive.
C21_BroadcastToOthers ==
    last.op \in {"userMoved", "joinTable", "tableCreated"}
    => /\ Len(emitted) = 1
       /\ emitted[1].event = BroadcastOf(last.op)
       /\ \A s \in Sockets :
             Len(Received(s)) = IF s \in Live \ {last.socket} THEN 1 ELSE 0

\* a connection of a user with two live connections sends userMoved while a
\* connection of another user is live
C21_Witness ==
    /\ last.op = "userMoved"
    /\ Online(last.userId)
    /\ last.socket \in users[last.userId].socketIds
    /\ Cardinality(users[last.userId].socketIds \cap Live) = 2
    /\ Live \ users[last.userId].socketIds # {}
    /\ Len(emitted) = 1

\* C22: the emits of a connection's events follow the order the events were
\* received in: when a connection's userMoved or joinTable is broadcast, no
\* registerUser that the same connection sent before it is still waiting to
\* emit its existingUsers and userJoined.
C22_EmitsInEventOrder ==
    last.op \in {"userMoved", "joinTable"}
    => \A i \in 1..Len(pending) :
          ~(pending[i].op = "registerUser" /\ pending[i].socket = last.socket)

\* the events of a step's emit calls, in call order
EmittedEvents(e) == [i \in 1..Len(e) |-> e[i].event]

\* C23: registerUser, userMoved and joinTable emit their live messages in the
\* step that updates the registry, before any durable operation has answered;
\* the steps in which the durable operations answer emit nothing.
C23_EmitWithRegistryUpdate ==
    [][/\ last'.op = "registerUser"
             => EmittedEvents(emitted') = <<"existingUsers", "userJoined">>
       /\ last'.op = "userMoved" => EmittedEvents(emitted') = <<"userMoved">>
       /\ last'.op = "joinTable" => EmittedEvents(emitted') = <<"tableJoined">>
       /\ last'.op \in {"registerUser.findOne", "registerUser.done",
                        "userMoved.done", "joinTable.done"}
             => emitted' = <<>>]_vars

\* C24: the userJoined a registerUser broadcasts carries the firstName,
\* lastName and position of the registering user's registry entry, also when
\* the payload omits the names and when the entry is an earlier connection's.
C24_JoinedMatchesEntry ==
    (/\ last.op = "registerUser.done"
     /\ Online(last.userId)
     /\ Len(emitted) = 2)
    => LET joined == emitted[2].payload
           entry  == users[last.userId]
       IN  /\ emitted[2].event = "userJoined"
           /\ joined.firstName = entry.firstName
           /\ joined.lastName = entry.lastName
           /\ joined.x = entry.x
           /\ joined.y = entry.y

\* the connections the latest step pushed chatCreated to
GotChatCreated == {s \in Sockets : EventsTo(s, "chatCreated") # <<>>}

\* C25: when createChatService has created a new chat, or
\* createGroupChatService a group chat, every live connection of every
\* participant who is online at that moment receives chatCreated.
C25_ChatCreatedToParticipants ==
    last.op \in {"createChat.created", "createGroupChat.created"}
    => \A j \in 1..Len(last.participants) :
          SocketIdsOf(last.participants[j]) \cap Live \subseteq GotChatCreated

\* the events and helpers that pass a message on
PassOn ==
    {"tableCreated", "userFollowed", "markMessagesAsRead", "markMessagesAsRead.done"}
      \cup VideoEvents

\* C26: tableCreated, the four video-* relays, notifyUserFollowed and
\* markMessagesAsRead leave the registry unchanged: no entry is created or
\* deleted and no entry's socketIds, names, position or tableId changes.
C26_RegistryFrame ==
    [][last'.op \in PassOn => users' = users /\ userKeys' = userKeys]_vars

C26_Witness ==
    /\ last.op = "tableCreated"
    /\ \E u \in DOMAIN users : last.socket \in users[u].socketIds /\ users[u].tableId = Null
    /\ \E u \in DOMAIN users : users[u].tableId # Null /\ users[u].x = MovedX
    /\ Len(emitted) = 1

\* the userJoined{userId: u} emit calls of the latest step
UserJoinedCalls(u) ==
    SelectSeq(emitted, LAMBDA e : e.event = "userJoined" /\ e.payload.userId = u)

\* C27: under every interleaving of a connection's registerUser handler with
\* that connection's disconnect, userJoined{userId: U} is never broadcast at a
\* moment when U has no registry entry.
C27_JoinedOnlyWithEntry ==
    \A u \in UserIds : UserJoinedCalls(u) # <<>> => Online(u)

\* C28: the durable store holds at most one hangout-state record per userId
\* after any interleaving of registerUser, userMoved and joinTable handlers.
C28_OneRecordPerUser ==
    \A i, j \in 1..Len(hangoutUsers) :
        hangoutUsers[i].userId = hangoutUsers[j].userId => i = j

\* C29: a userMoved or joinTable event changes the registry position or
\* tableId only of the user the sending connection has registered as: the
\* entry of a user whose socketIds do not hold the sender is left unchanged.
C29_MovesOwnEntryOnly ==
    [][last'.op \in {"userMoved", "joinTable"}
          => \A u \in DOMAIN users :
                last'.socket \notin users[u].socketIds => users'[u] = users[u]]_vars

\* the messagesRead emit calls of a sequence of emit calls
MessagesReadCalls(e) == SelectSeq(e, LAMBDA c : c.event = "messagesRead")

\* C30: in markMessagesAsRead, messagesRead is pushed only by the step in
\* which the durable read-state update has succeeded; when the update fails no
\* messagesRead is pushed to any connection, nothing is thrown and neither the
\* messages nor the registry change.
C30_ReceiptAfterUpdate ==
    [][/\ MessagesReadCalls(emitted') # <<>>
            => last'.op = "markMessagesAsRead.done" /\ last'.saved
       /\ (last'.op = "markMessagesAsRead.done" /\ ~last'.saved)
            => /\ emitted' = <<>>
               /\ ~error'
               /\ messages' = messages
               /\ users' = users]_vars

C30_Witness ==
    /\ last.op = "markMessagesAsRead.done"
    /\ ~last.saved
    /\ SocketIdsOf(last.userId) \cap Live # {}
    /\ \E m \in 1..Len(messages) :
          /\ messages[m].chatId = last.chatId
          /\ messages[m].senderId # last.userId
          /\ last.userId \notin messages[m].isReadBy
====
